---- MODULE Spec2Model ----
(***************************************************************************)
(* The XVM pallet (pallets/xvm/src/lib.rs): the cross-VM call dispatcher.  *)
(* One call stack per thread; the engines are external and may call back   *)
(* into the dispatcher while they execute.                                 *)
(***************************************************************************)
EXTENDS Integers, Sequences, FiniteSets, TLC

\* ------------------------------------------------------------------ bounds
\* u64::MAX, scaled down: both components of a Weight saturate here.
U64_MAX == 6
\* Deepest stack of engine invocations the model follows.
MaxDepth == 2
\* Threads that own a copy of IN_XVM.
NumThreads == 2

\* --------------------------------------------------------------- constants
H160_len_bytes == 20
AccountId_len_bytes == 32
MAX_ETHEREUM_TX_INPUT_SIZE == 65536
WeightPerGas == 2

Threads == 1..NumThreads
MainThread == 1

VmId == {"Evm", "Wasm"}

\* ------------------------------------------------------------------ Weight
Weight(r, p) == [ref_time |-> r, proof_size |-> p]

Weight_zero == Weight(0, 0)

Min(a, b) == IF a <= b THEN a ELSE b

sat_sub_u64_wrapping(a, b) == (a - b) % (U64_MAX + 1)

sat_sub_u64(a, b) == IF a >= b THEN a - b ELSE 0

sat_add_u64_wrapping(a, b) == (a + b) % (U64_MAX + 1)

sat_add_u64(a, b) == Min(a + b, U64_MAX)

saturating_sub(a, b) ==
    Weight(sat_sub_u64(a.ref_time, b.ref_time), sat_sub_u64(a.proof_size, b.proof_size))

saturating_add(a, b) ==
    Weight(sat_add_u64(a.ref_time, b.ref_time), sat_add_u64(a.proof_size, b.proof_size))

all_gte(a, b) == a.ref_time >= b.ref_time /\ a.proof_size >= b.proof_size

\* Option<Weight>
None == [some |-> FALSE, w |-> Weight_zero]
Some(w) == [some |-> TRUE, w |-> w]
unwrap_or_default(o) == IF o.some THEN o.w ELSE Weight_zero

\* T::GasWeightMapping::weight_to_gas: the reference time over the weight of one gas.
weight_to_gas(w) == w.ref_time \div WeightPerGas

\* ------------------------------------------------------------ input domains
TargetLens == {19, 20, 32, 33}
InputLens == {MAX_ETHEREUM_TX_INPUT_SIZE, MAX_ETHEREUM_TX_INPUT_SIZE + 1}
Values == {0, 1}
Datas == {<<>>, <<1, 2>>}
WeightLimits == {Weight(1, U64_MAX), Weight(4, 1), Weight(U64_MAX, U64_MAX)}
EngineWeights ==
    {Weight_zero, Weight(2, 1), Weight(U64_MAX - 1, 0), Weight(U64_MAX, U64_MAX)}
OverheadTables ==
    { [Evm |-> Weight(2, 0), Wasm |-> Weight(3, 1)],
      [Evm |-> Weight(1, 2), Wasm |-> Weight(U64_MAX, 0)] }

Contexts == [source_vm_id : VmId, weight_limit : WeightLimits]

Requests ==
    [context : Contexts, vm_id : VmId, target : TargetLens, input : InputLens,
     value : Values]

\* --------------------------------------------------------------- CallResult
CallOutput_new(output, used_weight) ==
    [variant |-> "Ok", reason |-> "None", data |-> output, used_weight |-> used_weight]

CallFailure_revert(reason, data, used_weight) ==
    [variant |-> "Revert", reason |-> reason, data |-> data, used_weight |-> used_weight]

CallFailure_error(reason, used_weight) ==
    [variant |-> "Error", reason |-> reason, data |-> <<>>, used_weight |-> used_weight]

\* ------------------------------------------------------------------- state
VARIABLES
    WeightInfo,   \* the overhead table of the runtime configuration
    IN_XVM,       \* thread -> the thread-local reentrance flag
    stack,        \* thread -> the do_call invocations waiting for their engine
    returned      \* thread -> the do_call invocation that returned in the thread's last step

vars == <<WeightInfo, IN_XVM, stack, returned>>

NoOutcome == [engine |-> "None"]

NoResult == [variant |-> "None", reason |-> "None", data |-> <<>>, used_weight |-> Weight_zero]

NoRequest ==
    [context |-> [source_vm_id |-> "Evm", weight_limit |-> Weight_zero], vm_id |-> "Evm",
     target |-> 0, input |-> 0, value |-> 0]

NothingReturned ==
    [valid |-> FALSE, unwound |-> FALSE, req |-> NoRequest, skip_execution |-> FALSE, depth |-> 0,
     entry_flag |-> FALSE, invoked |-> FALSE, outcome |-> NoOutcome, overheads |-> Weight_zero,
     result |-> NoResult]

Init ==
    /\ WeightInfo \in OverheadTables
    /\ IN_XVM = [t \in Threads |-> FALSE]
    /\ stack = [t \in Threads |-> <<>>]
    /\ returned = [t \in Threads |-> NothingReturned]

\* ---------------------------------------------------------------- adapters
\* Decode::decode of a fixed-width value from the target bytes: it needs `width` bytes
\* and leaves the rest unread.
Decode_decode_ok(width, target) == target >= width

\* ensure!(target.len() == H160::len_bytes(), ..) passes.
H160_len_ensured_unchecked(target) == TRUE

H160_len_ensured(target) == target = H160_len_bytes

\* EthereumTxInput::try_from(input) is Ok: the bounded vector takes the input whole.
EthereumTxInput_try_from_unbounded(input) == TRUE

EthereumTxInput_try_from_ok(input) == input <= MAX_ETHEREUM_TX_INPUT_SIZE

\* evm_call up to the engine: either an early return or the transaction handed over.
evm_call_enter_input_first(context, target, input, value, overheads, skip_execution) ==
    IF ~EthereumTxInput_try_from_ok(input)
    THEN [ret |-> TRUE, result |-> CallFailure_revert("InputTooLarge", <<>>, overheads)]
    ELSE IF ~H160_len_ensured(target)
    THEN [ret |-> TRUE, result |-> CallFailure_revert("InvalidTarget", <<>>, overheads)]
    ELSE IF ~Decode_decode_ok(H160_len_bytes, target)
    THEN [ret |-> TRUE, result |-> CallFailure_revert("InvalidTarget", <<>>, overheads)]
    ELSE LET weight_limit == saturating_sub(context.weight_limit, overheads)
             gas_limit == weight_to_gas(weight_limit)
         IN  IF skip_execution
             THEN [ret |-> TRUE, result |-> CallOutput_new(<<>>, overheads)]
             ELSE [ret |-> FALSE,
                   tx |-> [gas_limit |-> gas_limit, target |-> target, value |-> value,
                           input |-> input]]

evm_call_enter(context, target, input, value, overheads, skip_execution) ==
    IF ~H160_len_ensured(target)
    THEN [ret |-> TRUE, result |-> CallFailure_revert("InvalidTarget", <<>>, overheads)]
    ELSE IF ~Decode_decode_ok(H160_len_bytes, target)
    THEN [ret |-> TRUE, result |-> CallFailure_revert("InvalidTarget", <<>>, overheads)]
    ELSE IF ~EthereumTxInput_try_from_ok(input)
    THEN [ret |-> TRUE, result |-> CallFailure_revert("InputTooLarge", <<>>, overheads)]
    ELSE LET weight_limit == saturating_sub(context.weight_limit, overheads)
             gas_limit == weight_to_gas(weight_limit)
         IN  IF skip_execution
             THEN [ret |-> TRUE, result |-> CallOutput_new(<<>>, overheads)]
             ELSE [ret |-> FALSE,
                   tx |-> [gas_limit |-> gas_limit, target |-> target, value |-> value,
                           input |-> input]]

\* evm_call from the engine's answer on.
evm_call_translate_drops_partial(transact_result, overheads) ==
    LET used_weight ==
            saturating_add(unwrap_or_default(transact_result.actual_weight), overheads)
    IN  IF transact_result.ok
        THEN CASE transact_result.exit_reason = "Succeed" ->
                      CallOutput_new(transact_result.value, used_weight)
               [] transact_result.exit_reason = "Revert" ->
                      CallFailure_revert("VmRevert", transact_result.value, used_weight)
               [] transact_result.exit_reason = "Error" ->
                      CallFailure_error("VmError", used_weight)
               [] transact_result.exit_reason = "Fatal" ->
                      CallFailure_error("VmError", used_weight)
        ELSE CallFailure_error("VmError", overheads)

evm_call_translate(transact_result, overheads) ==
    LET used_weight ==
            saturating_add(unwrap_or_default(transact_result.actual_weight), overheads)
    IN  IF transact_result.ok
        THEN CASE transact_result.exit_reason = "Succeed" ->
                      CallOutput_new(transact_result.value, used_weight)
               [] transact_result.exit_reason = "Revert" ->
                      CallFailure_revert("VmRevert", transact_result.value, used_weight)
               [] transact_result.exit_reason = "Error" ->
                      CallFailure_error("VmError", used_weight)
               [] transact_result.exit_reason = "Fatal" ->
                      CallFailure_error("VmError", used_weight)
        ELSE CallFailure_error("VmError", used_weight)

\* wasm_call up to the engine.
wasm_call_enter_skip_ignored(context, target, input, value, overheads, skip_execution) ==
    IF ~Decode_decode_ok(AccountId_len_bytes, target)
    THEN [ret |-> TRUE, result |-> CallFailure_revert("InvalidTarget", <<>>, overheads)]
    ELSE LET weight_limit == saturating_sub(context.weight_limit, overheads)
         IN  [ret |-> FALSE,
              tx |-> [weight_limit |-> weight_limit, target |-> AccountId_len_bytes,
                      value |-> value, input |-> input]]

wasm_call_enter_skip_first(context, target, input, value, overheads, skip_execution) ==
    IF skip_execution
    THEN [ret |-> TRUE, result |-> CallOutput_new(<<>>, overheads)]
    ELSE IF ~Decode_decode_ok(AccountId_len_bytes, target)
    THEN [ret |-> TRUE, result |-> CallFailure_revert("InvalidTarget", <<>>, overheads)]
    ELSE LET weight_limit == saturating_sub(context.weight_limit, overheads)
         IN  [ret |-> FALSE,
              tx |-> [weight_limit |-> weight_limit, target |-> AccountId_len_bytes,
                      value |-> value, input |-> input]]

wasm_call_enter(context, target, input, value, overheads, skip_execution) ==
    IF ~Decode_decode_ok(AccountId_len_bytes, target)
    THEN [ret |-> TRUE, result |-> CallFailure_revert("InvalidTarget", <<>>, overheads)]
    ELSE LET weight_limit == saturating_sub(context.weight_limit, overheads)
         IN  IF skip_execution
             THEN [ret |-> TRUE, result |-> CallOutput_new(<<>>, overheads)]
             ELSE [ret |-> FALSE,
                   tx |-> [weight_limit |-> weight_limit, target |-> AccountId_len_bytes,
                           value |-> value, input |-> input]]

\* wasm_call from the engine's answer on.
wasm_call_translate_flags_unread(call_result, overheads) ==
    LET used_weight == saturating_add(call_result.gas_consumed, overheads)
    IN  IF call_result.ok
        THEN CallOutput_new(call_result.data, used_weight)
        ELSE CallFailure_error("VmError", used_weight)

wasm_call_translate(call_result, overheads) ==
    LET used_weight == saturating_add(call_result.gas_consumed, overheads)
    IN  IF call_result.ok
        THEN IF call_result.REVERT
             THEN CallFailure_revert("VmRevert", call_result.data, used_weight)
             ELSE CallOutput_new(call_result.data, used_weight)
        ELSE CallFailure_error("VmError", used_weight)

\* ------------------------------------------------------------ engine answers
EvmOutcomes ==
    [engine : {"Evm"}, ok : {TRUE}, exit_reason : {"Succeed", "Revert"}, value : Datas,
     actual_weight : {None} \cup {Some(w) : w \in EngineWeights}]
    \cup
    [engine : {"Evm"}, ok : {TRUE}, exit_reason : {"Error", "Fatal"}, value : {<<>>},
     actual_weight : {None} \cup {Some(w) : w \in EngineWeights}]
    \cup
    [engine : {"Evm"}, ok : {FALSE}, exit_reason : {"DispatchError"}, value : {<<>>},
     actual_weight : {None} \cup {Some(w) : w \in EngineWeights}]

WasmOutcomes ==
    [engine : {"Wasm"}, ok : {TRUE}, REVERT : BOOLEAN, data : Datas,
     gas_consumed : EngineWeights]
    \cup
    [engine : {"Wasm"}, ok : {FALSE}, REVERT : {FALSE}, data : {<<>>},
     gas_consumed : EngineWeights]

\* ------------------------------------------------------------------ do_call
overheads_of_swapped(vm_id) == WeightInfo[IF vm_id = "Evm" THEN "Wasm" ELSE "Evm"]

overheads_of(vm_id) == WeightInfo[vm_id]

Returns(t, req, skip_execution, entry_flag, overheads, result) ==
    returned' = [returned EXCEPT ![t] =
        [valid |-> TRUE, unwound |-> FALSE, req |-> req, skip_execution |-> skip_execution,
         depth |-> Len(stack[t]), entry_flag |-> entry_flag, invoked |-> FALSE,
         outcome |-> NoOutcome, overheads |-> overheads, result |-> result]]

\* ensure!(context.source_vm_id != vm_id, ..) fails.
is_same_vm_call_never(context, vm_id) == FALSE

is_same_vm_call(context, vm_id) == context.source_vm_id = vm_id

\* IN_XVM.with(|in_xvm| in_xvm.replace(true)): the old value, and the flag set.
replace_true_blind(t) == [old |-> FALSE, new |-> TRUE]

replace_true_shared(t) == [old |-> \E u \in Threads : IN_XVM[u], new |-> TRUE]

replace_true_take_first(t) == [old |-> IN_XVM[t], new |-> ~IN_XVM[t]]

replace_true(t) == [old |-> IN_XVM[t], new |-> TRUE]

\* IN_XVM.with(|in_xvm| in_xvm.take()): the flag back at its default.
take_leaves_set(t) == IN_XVM[t]

take(t) == FALSE

do_call(t, req, skip_execution) ==
    LET overheads == overheads_of(req.vm_id)
        adapter ==
            IF req.vm_id = "Evm"
            THEN evm_call_enter(req.context, req.target, req.input, req.value, overheads,
                                skip_execution)
            ELSE wasm_call_enter(req.context, req.target, req.input, req.value, overheads,
                                 skip_execution)
    IN  /\ Len(stack[t]) < MaxDepth
        /\ UNCHANGED WeightInfo
        /\ IF is_same_vm_call(req.context, req.vm_id)
           THEN /\ Returns(t, req, skip_execution, IN_XVM[t], overheads,
                           CallFailure_error("SameVmCallDenied", overheads))
                /\ UNCHANGED <<IN_XVM, stack>>
           ELSE IF replace_true(t).old
           THEN /\ Returns(t, req, skip_execution, IN_XVM[t], overheads,
                           CallFailure_error("ReentranceDenied", overheads))
                /\ IN_XVM' = [IN_XVM EXCEPT ![t] = replace_true(t).new]
                /\ UNCHANGED stack
           ELSE IF adapter.ret
           THEN /\ Returns(t, req, skip_execution, IN_XVM[t], overheads, adapter.result)
                /\ IN_XVM' = [IN_XVM EXCEPT ![t] = take(t)]
                /\ UNCHANGED stack
           ELSE /\ stack' = [stack EXCEPT ![t] =
                      Append(@, [req |-> req, skip_execution |-> skip_execution,
                                 overheads |-> overheads, tx |-> adapter.tx,
                                 entry_flag |-> IN_XVM[t]])]
                /\ IN_XVM' = [IN_XVM EXCEPT ![t] = replace_true(t).new]
                /\ returned' = [returned EXCEPT ![t] = NothingReturned]

\* XvmCall::call, from the runtime or from an engine that is executing.
call_of(t, requests) == \E req \in requests : do_call(t, req, FALSE)

call(t) == call_of(t, Requests)

\* Pallet::call_without_execution: the benchmarks call it, from outside any engine.
call_without_execution(t) ==
    /\ stack[t] = <<>>
    /\ \E req \in Requests : do_call(t, req, TRUE)

\* The engine of the innermost invocation answers; do_call clears the flag and returns.
engine_returns(t, outcome, result) ==
    LET f == stack[t][Len(stack[t])]
    IN  /\ stack' = [stack EXCEPT ![t] = SubSeq(@, 1, Len(@) - 1)]
        /\ IN_XVM' = [IN_XVM EXCEPT ![t] = take(t)]
        /\ returned' = [returned EXCEPT ![t] =
               [valid |-> TRUE, unwound |-> FALSE, req |-> f.req,
                skip_execution |-> f.skip_execution,
                depth |-> Len(stack[t]) - 1, entry_flag |-> f.entry_flag, invoked |-> TRUE,
                outcome |-> outcome, overheads |-> f.overheads, result |-> result]]
        /\ UNCHANGED WeightInfo

xvm_transact_of(t, outcomes) ==
    /\ stack[t] # <<>>
    /\ stack[t][Len(stack[t])].req.vm_id = "Evm"
    /\ \E transact_result \in outcomes :
           engine_returns(t, transact_result,
               evm_call_translate(transact_result, stack[t][Len(stack[t])].overheads))

xvm_transact(t) == xvm_transact_of(t, EvmOutcomes)

bare_call_of(t, outcomes) ==
    /\ stack[t] # <<>>
    /\ stack[t][Len(stack[t])].req.vm_id = "Wasm"
    /\ \E call_result \in outcomes :
           engine_returns(t, call_result,
               wasm_call_translate(call_result, stack[t][Len(stack[t])].overheads))

bare_call(t) == bare_call_of(t, WasmOutcomes)

\* A panic inside the engine, in a build that unwinds: the frames of do_call are left
\* without line 182 being run, and the panic is caught above the outermost dispatch.
panic_unwind(t) ==
    /\ stack[t] # <<>>
    /\ stack' = [stack EXCEPT ![t] = <<>>]
    /\ returned' = [returned EXCEPT ![t] = [NothingReturned EXCEPT !.unwound = TRUE]]
    /\ UNCHANGED <<WeightInfo, IN_XVM>>

\* The same panic in a build that aborts: the instance and its memory are discarded, and
\* the next call runs in a fresh one.
panic_abort(t) ==
    /\ stack[t] # <<>>
    /\ stack' = [stack EXCEPT ![t] = <<>>]
    /\ IN_XVM' = [IN_XVM EXCEPT ![t] = FALSE]
    /\ returned' = [returned EXCEPT ![t] = NothingReturned]
    /\ UNCHANGED WeightInfo

Next ==
    \/ call(MainThread)
    \/ call_without_execution(MainThread)
    \/ xvm_transact(MainThread)
    \/ bare_call(MainThread)

Spec == Init /\ [][Next]_vars

\* The dispatcher with engines that may panic.
NextAbort ==
    \/ Next
    \/ panic_unwind(MainThread)
    \/ panic_abort(MainThread)

SpecAbort == Init /\ [][NextAbort]_vars

\* Unrelated transactions on separate threads, each with its own IN_XVM, on a smaller
\* set of requests and engine answers.
ThreadRequests ==
    {req \in Requests :
        /\ req.context.weight_limit = Weight(4, 1)
        /\ req.target \in {H160_len_bytes, AccountId_len_bytes}
        /\ req.input = MAX_ETHEREUM_TX_INPUT_SIZE
        /\ req.value = 0}

ThreadEvmOutcomes ==
    {o \in EvmOutcomes :
        /\ o.exit_reason \in {"Succeed", "DispatchError"}
        /\ o.value = <<>>
        /\ o.actual_weight = None}

ThreadWasmOutcomes ==
    {o \in WasmOutcomes : ~o.REVERT /\ o.data = <<>> /\ o.gas_consumed = Weight_zero}

NextThreads ==
    \E t \in Threads :
        \/ call_of(t, ThreadRequests)
        \/ xvm_transact_of(t, ThreadEvmOutcomes)
        \/ bare_call_of(t, ThreadWasmOutcomes)

SpecThreads == Init /\ [][NextThreads]_vars

\* ================================================================== claims
Frames(t) == {stack[t][i] : i \in 1..Len(stack[t])}

\* The Error(reason) failure whose cost is the overhead the table holds for vm_id.
DeniedAtOverhead(reason, vm_id) ==
    [variant |-> "Error", reason |-> reason, data |-> <<>>, used_weight |-> WeightInfo[vm_id]]

\* The Revert(reason) failure without payload whose cost is that overhead.
RevertedAtOverhead(reason, vm_id) ==
    [variant |-> "Revert", reason |-> reason, data |-> <<>>, used_weight |-> WeightInfo[vm_id]]

\* C1: a request whose source VM is its target VM returns Error(SameVmCallDenied) at
\* exactly the target's table overhead, whatever the flag was, and no engine is invoked
\* for it (no invocation waiting for an engine is a same-VM one).
C1_SameVmCallDenied ==
    \A t \in Threads :
        /\ \A f \in Frames(t) : f.req.context.source_vm_id # f.req.vm_id
        /\ (returned[t].valid /\ returned[t].req.context.source_vm_id = returned[t].req.vm_id)
               => /\ returned[t].result = DeniedAtOverhead("SameVmCallDenied", returned[t].req.vm_id)
                  /\ ~returned[t].invoked

\* A same-VM request made while the flag was set has returned SameVmCallDenied.
C1_Witness ==
    \E t \in Threads :
        /\ returned[t].valid
        /\ returned[t].req.context.source_vm_id = returned[t].req.vm_id
        /\ returned[t].entry_flag
        /\ returned[t].result.reason = "SameVmCallDenied"

\* C2 as stated: every call made while an outer adapter is executing fails with
\* Error(ReentranceDenied) at the overhead of its target VM, whatever its arguments.
C2_NestedAlwaysReentranceDenied ==
    \A t \in Threads :
        (returned[t].valid /\ returned[t].depth > 0)
            => returned[t].result = DeniedAtOverhead("ReentranceDenied", returned[t].req.vm_id)

\* C2 amended: every call made while an outer adapter is executing fails at the overhead
\* of its target VM and without an engine being invoked: with Error(ReentranceDenied)
\* when its source VM differs from its target VM, with Error(SameVmCallDenied) when not.
C2_NestedDenied ==
    \A t \in Threads :
        /\ Len(stack[t]) <= 1
        /\ (returned[t].valid /\ returned[t].depth > 0)
               => /\ returned[t].result =
                        DeniedAtOverhead(
                            IF returned[t].req.context.source_vm_id = returned[t].req.vm_id
                            THEN "SameVmCallDenied" ELSE "ReentranceDenied",
                            returned[t].req.vm_id)
                  /\ ~returned[t].invoked

\* A nested call with a decodable target and a source VM other than its target VM has
\* been denied while the outer invocation still waits for its engine.
C2_Witness ==
    \E t \in Threads :
        /\ Len(stack[t]) = 1
        /\ returned[t].valid /\ returned[t].depth = 1
        /\ returned[t].req.vm_id = "Evm" /\ returned[t].req.target = H160_len_bytes
        /\ returned[t].result.reason = "ReentranceDenied"

\* C3: when every dispatch returns normally, the flag is false whenever no dispatch is
\* on the stack, every top-level dispatch finds it false, and none is rejected with
\* ReentranceDenied.
C3_FlagClearedOnReturn ==
    \A t \in Threads :
        /\ stack[t] = <<>> => IN_XVM[t] = FALSE
        /\ (returned[t].valid /\ returned[t].depth = 0)
               => /\ ~returned[t].entry_flag
                  /\ returned[t].result.reason # "ReentranceDenied"

\* A top-level dispatch has returned Error(VmError) from its engine and the flag is false.
C3_Witness ==
    \E t \in Threads :
        /\ returned[t].valid /\ returned[t].depth = 0 /\ returned[t].invoked
        /\ returned[t].result.reason = "VmError"
        /\ stack[t] = <<>> /\ IN_XVM[t] = FALSE

\* C4: the flag is never left set once the dispatch that set it has exited, also when
\* the engine aborts.
C4_FlagNeverLeftSet == \A t \in Threads : stack[t] = <<>> => ~IN_XVM[t]

\* C5: the consumed cost of every result is at least the table overhead of the target
\* VM, in both components of the weight.
C5_ConsumedAtLeastOverhead ==
    \A t \in Threads :
        returned[t].valid
            => all_gte(returned[t].result.used_weight, WeightInfo[returned[t].req.vm_id])

\* The engine reported the largest weight, and the sum with a positive overhead stayed there.
C5_Witness ==
    \E t \in Threads :
        /\ returned[t].valid /\ returned[t].invoked
        /\ returned[t].req.vm_id = "Wasm"
        /\ returned[t].outcome.gas_consumed.ref_time = U64_MAX
        /\ WeightInfo["Wasm"].ref_time > 0
        /\ returned[t].result.used_weight.ref_time = U64_MAX

\* The limit less the overhead, stopping at zero.
LimitLessOverhead(limit, overhead) ==
    Weight(IF limit.ref_time >= overhead.ref_time
           THEN limit.ref_time - overhead.ref_time ELSE 0,
           IF limit.proof_size >= overhead.proof_size
           THEN limit.proof_size - overhead.proof_size ELSE 0)

\* C6: the budget of every engine invocation is the weight limit of the context less the
\* overhead of the target VM, zero where the overhead is the larger: as gas for the EVM,
\* as it is for WASM.
C6_EngineBudget ==
    \A t \in Threads : \A f \in Frames(t) :
        LET budget == LimitLessOverhead(f.req.context.weight_limit, WeightInfo[f.req.vm_id])
        IN  IF f.req.vm_id = "Evm"
            THEN f.tx.gas_limit = weight_to_gas(budget)
            ELSE f.tx.weight_limit = budget

\* An engine runs on a budget that stopped at zero because the overhead exceeds the limit.
C6_Witness ==
    \E t \in Threads : \E f \in Frames(t) :
        /\ f.req.vm_id = "Wasm"
        /\ f.req.context.weight_limit.ref_time < WeightInfo["Wasm"].ref_time
        /\ f.req.context.weight_limit.proof_size > WeightInfo["Wasm"].proof_size
        /\ f.tx.weight_limit.ref_time = 0
        /\ f.tx.weight_limit.proof_size > 0

\* The target decodes for the VM: 20 bytes for the EVM, an account's bytes for WASM.
TargetDecodes(req) ==
    IF req.vm_id = "Evm" THEN req.target = H160_len_bytes
    ELSE req.target >= AccountId_len_bytes

\* C7: with skip-execution, a request that passes validation returns Ok with no data at
\* exactly the table overhead, and no engine is ever invoked with skip-execution.
C7_SkipExecution ==
    \A t \in Threads :
        /\ \A f \in Frames(t) : ~f.skip_execution
        /\ ( /\ returned[t].valid /\ returned[t].skip_execution
             /\ returned[t].req.context.source_vm_id # returned[t].req.vm_id
             /\ ~returned[t].entry_flag
             /\ TargetDecodes(returned[t].req)
             /\ (returned[t].req.vm_id = "Evm"
                    => returned[t].req.input <= MAX_ETHEREUM_TX_INPUT_SIZE) )
               => /\ returned[t].result =
                        [variant |-> "Ok", reason |-> "None", data |-> <<>>,
                         used_weight |-> WeightInfo[returned[t].req.vm_id]]
                  /\ ~returned[t].invoked

\* A skip-execution call to WASM with a budget below the overhead has returned Ok.
C7_Witness ==
    \E t \in Threads :
        /\ returned[t].valid /\ returned[t].skip_execution
        /\ returned[t].req.vm_id = "Wasm"
        /\ returned[t].req.context.weight_limit.ref_time < WeightInfo["Wasm"].ref_time
        /\ returned[t].result.variant = "Ok"

\* C8: a dispatch that reaches the EVM adapter with a target that is not 20 bytes long
\* returns Revert(InvalidTarget) at exactly the EVM overhead, and the EVM engine is never
\* invoked on such a target.
C8_InvalidTarget ==
    \A t \in Threads :
        /\ \A f \in Frames(t) : f.req.vm_id = "Evm" => f.req.target = H160_len_bytes
        /\ ( /\ returned[t].valid /\ returned[t].req.vm_id = "Evm"
             /\ returned[t].req.context.source_vm_id # "Evm"
             /\ ~returned[t].entry_flag
             /\ returned[t].req.target # H160_len_bytes )
               => /\ returned[t].result = RevertedAtOverhead("InvalidTarget", "Evm")
                  /\ ~returned[t].invoked

\* A target longer than 20 bytes has been turned down by the EVM adapter.
C8_Witness ==
    \E t \in Threads :
        /\ returned[t].valid /\ returned[t].req.vm_id = "Evm"
        /\ returned[t].req.context.source_vm_id # "Evm"
        /\ ~returned[t].entry_flag /\ ~returned[t].skip_execution
        /\ returned[t].req.target > H160_len_bytes
        /\ returned[t].result.reason = "InvalidTarget"

\* C9: a dispatch that reaches the EVM adapter with a 20-byte target and an input longer
\* than the bound returns Revert(InputTooLarge) at exactly the EVM overhead, and the EVM
\* engine is never invoked on such an input.
C9_InputTooLarge ==
    \A t \in Threads :
        /\ \A f \in Frames(t) :
               f.req.vm_id = "Evm" => f.req.input <= MAX_ETHEREUM_TX_INPUT_SIZE
        /\ ( /\ returned[t].valid /\ returned[t].req.vm_id = "Evm"
             /\ returned[t].req.context.source_vm_id # "Evm"
             /\ ~returned[t].entry_flag
             /\ returned[t].req.target = H160_len_bytes
             /\ returned[t].req.input > MAX_ETHEREUM_TX_INPUT_SIZE )
               => /\ returned[t].result = RevertedAtOverhead("InputTooLarge", "Evm")
                  /\ ~returned[t].invoked

\* An oversized input has been turned down in skip-execution mode as well.
C9_Witness ==
    \E t \in Threads :
        /\ returned[t].valid /\ returned[t].req.vm_id = "Evm"
        /\ returned[t].skip_execution
        /\ returned[t].req.target = H160_len_bytes
        /\ returned[t].req.input = MAX_ETHEREUM_TX_INPUT_SIZE + 1
        /\ returned[t].result.reason = "InputTooLarge"

\* The weight the engine reported, zero when it reported none, plus the overhead; a
\* component of a weight holds no more than U64_MAX.
ReportedPlusOverhead(actual_weight, overhead) ==
    LET used == IF actual_weight.some THEN actual_weight.w ELSE Weight(0, 0)
        r == used.ref_time + overhead.ref_time
        p == used.proof_size + overhead.proof_size
    IN  Weight(IF r > U64_MAX THEN U64_MAX ELSE r, IF p > U64_MAX THEN U64_MAX ELSE p)

\* C10: the result of a dispatch the EVM engine executed is decided by the engine's
\* outcome: succeed gives Ok with the data, revert gives Revert(VmRevert) with the bytes
\* as returned, error, fatal and a failed engine call give Error(VmError); the cost is
\* the reported weight (zero if none) plus the overhead in every case.
C10_EvmOutcomeTranslation ==
    \A t \in Threads :
        (returned[t].valid /\ returned[t].invoked /\ returned[t].req.vm_id = "Evm")
            => LET o == returned[t].outcome
                   r == returned[t].result
               IN  /\ r.used_weight = ReportedPlusOverhead(o.actual_weight, WeightInfo["Evm"])
                   /\ (o.ok /\ o.exit_reason = "Succeed")
                          => (r.variant = "Ok" /\ r.data = o.value)
                   /\ (o.ok /\ o.exit_reason = "Revert")
                          => (r.variant = "Revert" /\ r.reason = "VmRevert" /\ r.data = o.value)
                   /\ (o.ok /\ o.exit_reason \in {"Error", "Fatal"})
                          => (r.variant = "Error" /\ r.reason = "VmError")
                   /\ ~o.ok => (r.variant = "Error" /\ r.reason = "VmError")

\* The engine call itself failed after reporting a partial weight, and the result is
\* Error(VmError).
C10_Witness ==
    \E t \in Threads :
        /\ returned[t].valid /\ returned[t].invoked /\ returned[t].req.vm_id = "Evm"
        /\ ~returned[t].outcome.ok
        /\ returned[t].outcome.actual_weight = Some(Weight(2, 1))
        /\ returned[t].result.reason = "VmError"

\* The weight the WASM engine consumed plus the overhead; a component of a weight holds
\* no more than U64_MAX.
ConsumedPlusOverhead(gas_consumed, overhead) ==
    LET r == gas_consumed.ref_time + overhead.ref_time
        p == gas_consumed.proof_size + overhead.proof_size
    IN  Weight(IF r > U64_MAX THEN U64_MAX ELSE r, IF p > U64_MAX THEN U64_MAX ELSE p)

\* C11: the result of a dispatch the WASM engine executed is decided by the engine's
\* result: success with the REVERT flag gives Revert(VmRevert) with the bytes as
\* returned, success without it gives Ok with the data, an error gives Error(VmError);
\* the cost is the consumed weight plus the overhead in all three cases.
C11_WasmOutcomeTranslation ==
    \A t \in Threads :
        (returned[t].valid /\ returned[t].invoked /\ returned[t].req.vm_id = "Wasm")
            => LET o == returned[t].outcome
                   r == returned[t].result
               IN  /\ r.used_weight = ConsumedPlusOverhead(o.gas_consumed, WeightInfo["Wasm"])
                   /\ (o.ok /\ o.REVERT)
                          => (r.variant = "Revert" /\ r.reason = "VmRevert" /\ r.data = o.data)
                   /\ (o.ok /\ ~o.REVERT) => (r.variant = "Ok" /\ r.data = o.data)
                   /\ ~o.ok => (r.variant = "Error" /\ r.reason = "VmError")

\* The WASM engine returned the payload 1, 2 with the REVERT flag and the dispatch
\* returned it as a revert.
C11_Witness ==
    \E t \in Threads :
        /\ returned[t].valid /\ returned[t].invoked /\ returned[t].req.vm_id = "Wasm"
        /\ returned[t].outcome.ok /\ returned[t].outcome.REVERT
        /\ returned[t].outcome.data = <<1, 2>>
        /\ returned[t].result.reason = "VmRevert"
        /\ returned[t].result.data = <<1, 2>>

\* The first check of the dispatcher a request fails, in the order same-VM, reentrance,
\* target decoding, EVM input bound; "None" when it passes them all.
FirstRejection(req, entry_flag) ==
    IF req.context.source_vm_id = req.vm_id THEN "SameVmCallDenied"
    ELSE IF entry_flag THEN "ReentranceDenied"
    ELSE IF ~TargetDecodes(req) THEN "InvalidTarget"
    ELSE IF req.vm_id = "Evm" /\ req.input > MAX_ETHEREUM_TX_INPUT_SIZE THEN "InputTooLarge"
    ELSE "None"

ValidationFailures ==
    {"SameVmCallDenied", "ReentranceDenied", "InvalidTarget", "InputTooLarge"}

\* C12: the first failing check, in the order same-VM, reentrance, target decoding, EVM
\* input bound, decides the result; a request that passes them all is not rejected
\* with any of the four.
C12_RejectionOrder ==
    \A t \in Threads :
        returned[t].valid
            => LET first == FirstRejection(returned[t].req, returned[t].entry_flag)
               IN  IF first = "None"
                   THEN returned[t].result.reason \notin ValidationFailures
                   ELSE returned[t].result.reason = first /\ ~returned[t].invoked

\* An EVM request with a wrong-length target and an oversized input got InvalidTarget.
C12_Witness ==
    \E t \in Threads :
        /\ returned[t].valid /\ returned[t].req.vm_id = "Evm"
        /\ returned[t].req.target # H160_len_bytes
        /\ returned[t].req.input > MAX_ETHEREUM_TX_INPUT_SIZE
        /\ returned[t].result.reason = "InvalidTarget"

\* C13: in every state the flag of a call stack is true exactly when an adapter
\* invocation is active on it, and at most one is active.
C13_FlagIffAdapterActive ==
    \A t \in Threads :
        /\ IN_XVM[t] <=> (Len(stack[t]) > 0)
        /\ Len(stack[t]) <= 1

\* C14: a request that validation rejects gets the same failure, at the overhead, and
\* leaves the same flag whether skip-execution is on or off: both are decided by the
\* request and the flag on entry alone.
C14_RejectionsIgnoreSkipExecution ==
    \A t \in Threads :
        LET first == FirstRejection(returned[t].req, returned[t].entry_flag)
        IN  (returned[t].valid /\ first # "None")
                => /\ returned[t].result =
                         IF first \in {"SameVmCallDenied", "ReentranceDenied"}
                         THEN DeniedAtOverhead(first, returned[t].req.vm_id)
                         ELSE RevertedAtOverhead(first, returned[t].req.vm_id)
                   /\ IN_XVM[t] =
                         IF first = "SameVmCallDenied" THEN returned[t].entry_flag
                         ELSE first = "ReentranceDenied"

\* A skip-execution call to WASM with a target that does not decode was rejected.
C14_Witness ==
    \E t \in Threads :
        /\ returned[t].valid /\ returned[t].skip_execution
        /\ returned[t].req.vm_id = "Wasm"
        /\ returned[t].req.target < AccountId_len_bytes
        /\ returned[t].result.reason = "InvalidTarget"
        /\ ~IN_XVM[t]

all_lte(a, b) == a.ref_time <= b.ref_time /\ a.proof_size <= b.proof_size

\* The weight the engine reported for the dispatch that returned, zero if none.
EngineReported(ret) ==
    IF ret.req.vm_id = "Evm"
    THEN (IF ret.outcome.actual_weight.some THEN ret.outcome.actual_weight.w ELSE Weight(0, 0))
    ELSE ret.outcome.gas_consumed

\* The engine, if one ran, reported no more than the limit less the overhead.
EngineWithinBudget(ret) ==
    ret.invoked
        => all_lte(EngineReported(ret),
                   LimitLessOverhead(ret.req.context.weight_limit, WeightInfo[ret.req.vm_id]))

\* C15 as stated: with engines that report no more than their budget, the consumed cost
\* of no result exceeds the weight limit of the context.
C15_ConsumedWithinLimit ==
    \A t \in Threads :
        (returned[t].valid /\ EngineWithinBudget(returned[t]))
            => all_lte(returned[t].result.used_weight, returned[t].req.context.weight_limit)

\* C15 amended: the same, for contexts whose weight limit is at least the overhead of
\* the target VM in both components.
C15_ConsumedWithinLimitAboveOverhead ==
    \A t \in Threads :
        ( /\ returned[t].valid /\ EngineWithinBudget(returned[t])
          /\ all_lte(WeightInfo[returned[t].req.vm_id], returned[t].req.context.weight_limit) )
            => all_lte(returned[t].result.used_weight, returned[t].req.context.weight_limit)

\* An engine used all of a budget below the largest weight, and the result's cost is the
\* weight limit.
C15_Witness ==
    \E t \in Threads :
        /\ returned[t].valid /\ returned[t].invoked
        /\ EngineReported(returned[t]).ref_time > 0
        /\ EngineReported(returned[t]) =
               LimitLessOverhead(returned[t].req.context.weight_limit,
                                 WeightInfo[returned[t].req.vm_id])
        /\ returned[t].req.context.weight_limit.ref_time < U64_MAX
        /\ returned[t].result.used_weight = returned[t].req.context.weight_limit

\* C17: a dispatch rejected before the adapter leaves the flag as it found it, a
\* ReentranceDenied one leaves it true; the flag is true as long as an outer dispatch
\* waits for its engine, so every further nested attempt is denied too.
C17_RejectionKeepsFlag ==
    \A t \in Threads :
        /\ Len(stack[t]) > 0 => IN_XVM[t]
        /\ (returned[t].valid
              /\ returned[t].result.reason \in {"SameVmCallDenied", "ReentranceDenied"})
               => IN_XVM[t] = returned[t].entry_flag
        /\ (returned[t].valid /\ returned[t].result.reason = "ReentranceDenied")
               => IN_XVM[t]

\* A nested call was denied for reentrance and the outer dispatch still holds the flag.
C17_Witness ==
    \E t \in Threads :
        /\ Len(stack[t]) = 1 /\ IN_XVM[t]
        /\ returned[t].valid /\ returned[t].depth = 1
        /\ returned[t].result.reason = "ReentranceDenied"
        /\ returned[t].req.vm_id = "Wasm"

\* C16: the flag is per thread: a call is rejected with ReentranceDenied only from inside
\* a dispatch in progress on its own thread, whatever runs on the others; the flag of a
\* dispatch in progress stays set whatever the other threads clear; and every nested
\* call with a source VM other than its target VM finds the flag of its thread set.
C16_FlagPerThread ==
    \A t \in Threads :
        /\ (returned[t].valid /\ returned[t].result.reason = "ReentranceDenied")
               => returned[t].depth > 0
        /\ Len(stack[t]) > 0 => IN_XVM[t]
        /\ ( /\ returned[t].valid /\ returned[t].depth > 0
             /\ returned[t].req.context.source_vm_id # returned[t].req.vm_id )
               => (returned[t].entry_flag /\ returned[t].result.reason = "ReentranceDenied")

\* One thread ran a whole dispatch through its engine and cleared its flag while a
\* dispatch on another thread was in progress, whose flag is still set.
C16_Witness ==
    \E t \in Threads : \E u \in Threads \ {t} :
        /\ Len(stack[u]) = 1 /\ IN_XVM[u]
        /\ returned[t].valid /\ returned[t].depth = 0 /\ returned[t].invoked
        /\ stack[t] = <<>> /\ ~IN_XVM[t]

====
